---- MODULE Spec2Model ----
(***************************************************************************)
(* Model of the command core of MCPHomeAutomation:                         *)
(*   - AnsibleMCPServer.runCommand (ansible-mcp-server/index.mjs), the     *)
(*     guarded process executor: capacity gate over activeCommands,        *)
(*     allow-list, spawn, output capture, the two timeout timers, and the  *)
(*     finally block that releases the slot;                               *)
(*   - the decider's execute_command handler with executeWithAnsible and   *)
(*     executeWithSSH (documents-mcp-server/index.mjs, second decider      *)
(*     copy), which hand a command string to execSync;                     *)
(*   - the classifier shouldUseAnsible, in its rule-cascade and its        *)
(*     keyword-count version, as a function of description and command;    *)
(*   - run_ansible_command with sanitizeInput, and the CallToolRequest     *)
(*     handler that turns errors into McpError codes;                      *)
(*   - run_playbook, the convenience tools and the LilyGo tools of the     *)
(*     Ansible server, up to their call of runCommand;                     *)
(*   - validateDocumentsPath of the documents server;                      *)
(*   - the copy of shouldUseAnsible in scripts/test_decision_logic.js.     *)
(* JavaScript runs every callback to completion, so each action below is   *)
(* one callback (or the synchronous prefix of an async function up to its  *)
(* first await).                                                           *)
(***************************************************************************)
EXTENDS Integers, Sequences, FiniteSets, TLC

\* ------------------------------------------------------------------ bounds

\* Number of runCommand invocations considered (one-shot call instances).
NumCalls == 2

\* CONFIG.MAX_CONCURRENT_COMMANDS: parseInt(process.env.MAX_CONCURRENT_COMMANDS)
\* || 3, any positive integer the environment sets.
MAX_CONCURRENT_COMMANDS == 1

\* Longest captured output (in characters) of one stream of one child.
MaxOut == 3

\* ------------------------------------------------------- program constants

\* CONFIG.COMMAND_TIMEOUT (default, ms).
COMMAND_TIMEOUT == 30000

\* A per-call options.timeout larger than COMMAND_TIMEOUT (the value the
\* firmware-flash caller passes); options is spread after the default, so it
\* replaces the spawn 'timeout' option but not the explicit setTimeout delay.
LongTimeout == 60000

\* The exit code of a child ended by a signal (JavaScript null).
Null == -1

Calls == 1..NumCalls

allowedCommands == {"ansible", "ansible-playbook"}

\* The runCommand invocations considered: (command, args well typed?, the
\* spawn timeout in force after the options spread, and the argument vector
\* where a tool built it).
Requests ==
  { [command |-> "ansible",          argsOk |-> TRUE,  timeout |-> COMMAND_TIMEOUT,
     args |-> <<>>],
    [command |-> "ansible-playbook", argsOk |-> TRUE,  timeout |-> LongTimeout,
     args |-> <<>>],
    [command |-> "sh",               argsOk |-> TRUE,  timeout |-> LongTimeout,
     args |-> <<>>],
    [command |-> "ansible",          argsOk |-> FALSE, timeout |-> COMMAND_TIMEOUT,
     args |-> <<>>] }

NoRequest == [command |-> "", argsOk |-> TRUE, timeout |-> COMMAND_TIMEOUT,
              args |-> <<>>]

\* Characters of captured output; " " stands for any whitespace.
Char == {" ", "x"}
Chunks == { <<c>> : c \in Char }

\* ------------------------------------------------------------------- state

VARIABLES
  pc,              \* per call: "idle" | "awaiting" | "done"
  req,             \* per call: the request it was invoked with
  outcome,         \* per call: state of its promise / what the caller gets
  activeCommands,  \* this.activeCommands
  child,           \* per call: "none" | "running" | "spawnerr" | "exited" | "closed"
  killed,          \* per call: child.killed
  exitCode,        \* per call: code of the child's exit
  spawnTimer,      \* per call: timer of the spawn 'timeout' option
  explTimer,       \* per call: the explicit setTimeout
  stdout,          \* per call: captured stdout so far
  stderr,          \* per call: captured stderr so far
  toolArgs,        \* per call: arguments of the tool request that made it
  tool,            \* per call: name of the tool that was requested
  env,             \* the process environment: CONFIG, and what Math.random returns
  requestedPath,   \* documents server: the path handed to validateDocumentsPath
  validated,       \* documents server: what validateDocumentsPath made of it
  dExec,           \* decider: the last command line handed to execSync
  dResult,         \* decider: "none" | "returned" | "threw"
  dInput,          \* decider: the (description, command) being classified
  dVersion,        \* decider: which shouldUseAnsible ran last
  dDecision,       \* decider: what it decided, and by which rule
  dEvals,          \* decider: evaluations of shouldUseAnsible so far
  dPrev,           \* decider: decision of the request handled before
  dInvoked,        \* decider: backends invoked for the current request
  dResponse        \* decider: "none" | "content" | "isError"

\* State of the Ansible server's executor.
execVars == <<pc, req, outcome, activeCommands, child, killed, exitCode,
              spawnTimer, explTimer, stdout, stderr, toolArgs, tool, env>>

\* State of the decider.
deciderVars == <<dExec, dResult, dInput, dVersion, dDecision, dEvals, dPrev,
                 dInvoked, dResponse>>

\* State of the documents server's path validation.
docVars == <<requestedPath, validated>>

vars == <<execVars, deciderVars, docVars>>

\* ------------------------------------------------------------ pure helpers

IsSpace(ch) == ch = " "

RECURSIVE TrimStart(_)
TrimStart(s) ==
  IF s = <<>> THEN <<>>
  ELSE IF IsSpace(Head(s)) THEN TrimStart(Tail(s)) ELSE s

RECURSIVE TrimEnd(_)
TrimEnd(s) ==
  IF s = <<>> THEN <<>>
  ELSE IF IsSpace(s[Len(s)]) THEN TrimEnd(SubSeq(s, 1, Len(s) - 1)) ELSE s

\* Variant of Trim that strips leading whitespace only.
Trim_StartOnly(s) == TrimStart(s)

\* String.prototype.trim
Trim(s) == TrimEnd(TrimStart(s))

\* Variants of the capacity test: off by one, and absent.
AtCapacity_Gt(active) == Cardinality(active) > env.MAX_CONCURRENT_COMMANDS
AtCapacity_Never(active) == FALSE

\* this.activeCommands.size >= CONFIG.MAX_CONCURRENT_COMMANDS
AtCapacity(active) == Cardinality(active) >= env.MAX_CONCURRENT_COMMANDS

\* Variants of the allow-list test: with python on it, and with no list.
Allowed_WithPython(command) == command \in allowedCommands \cup {"python"}
Allowed_Any(command) == TRUE

\* Variant of the allow-list test that also lets the shell through.
Allowed_WithShell(command) == command \in allowedCommands \cup {"sh"}

\* allowedCommands.includes(command)
Allowed(command) == command \in allowedCommands

\* The id a call registers in activeCommands: what
\* Math.random().toString(36) returns to it.
commandId(c) == env.random[c]

\* Variant of the release that forgets to delete the id.
Release_Leak(active, c) == active

\* finally { this.activeCommands.delete(commandId) }
Release(active, c) == active \ {commandId(c)}

\* Variant of the success test that accepts every numeric exit code.
Success_AnyCode(code) == code # Null

\* success: code === 0
Success(code) == code = 0

\* The value the close handler resolves with.
Result(code, out, err) ==
  [kind |-> "result", code |-> code, stdout |-> Trim(out), stderr |-> Trim(err),
   success |-> Success(code)]

\* A rejection / thrown error of the given kind.
Err(kind) ==
  [kind |-> kind, code |-> Null, stdout |-> <<>>, stderr |-> <<>>, success |-> FALSE]

Pending == Err("pending")

\* Variant of settling in which the last resolve / reject wins.
Settle_Last(o, new) == new

\* resolve(value) / reject(error) of the promise runCommand awaits: the first
\* one settles it, later ones are ignored.
Settle(o, new) == IF o.kind = "pending" THEN new ELSE o

\* What run_playbook / run_ansible_command make of runCommand's outcome: a
\* result is formatted into the response text (verdict, exit code, output,
\* errors); an error propagates as a throw.
ToolResponse(o) ==
  IF o.kind = "result"
  THEN [thrown |-> FALSE, verdict |-> IF o.success THEN "completed" ELSE "failed",
        exitCode |-> o.code, output |-> o.stdout, errors |-> o.stderr]
  ELSE [thrown |-> TRUE, verdict |-> o.kind, exitCode |-> Null,
        output |-> <<>>, errors |-> <<>>]

\* Node fires timers of one duration in the order they were armed: the spawn
\* 'timeout' timer is armed inside spawn(), before the explicit setTimeout, so
\* it fires first unless options.timeout made it longer.
SpawnTimerFirst(r) == r.timeout <= COMMAND_TIMEOUT

\* ------------------------------------------------- tool layer: validation

\* A JavaScript value passed as a tool argument: a string (its characters), a
\* number, or undefined when the argument is missing.
Str(chars) == [type |-> "string", chars |-> chars]
Undefined == [type |-> "undefined", chars |-> <<>>]
ANumber == [type |-> "number", chars |-> <<>>]

\* v || fallback
OrElse(v, fallback) ==
  IF v.type = "undefined" \/ (v.type = "string" /\ v.chars = <<>>)
  THEN fallback ELSE v

\* The character class [a-zA-Z0-9_\-\.]
HostPatternChars ==
  { "a", "b", "c", "d", "e", "f", "g", "h", "i", "j", "k", "l", "m", "n",
    "o", "p", "q", "r", "s", "t", "u", "v", "w", "x", "y", "z", "A", "B",
    "C", "D", "E", "F", "G", "H", "I", "J", "K", "L", "M", "N", "O", "P",
    "Q", "R", "S", "T", "U", "V", "W", "X", "Y", "Z", "0", "1", "2", "3",
    "4", "5", "6", "7", "8", "9", "_", "-", "." }

\* ALLOWED_HOST_PATTERN.test(input): one or more characters of the class,
\* from the start of the input to its end.
ALLOWED_HOST_PATTERN(chars) ==
  /\ chars # <<>>
  /\ \A i \in 1..Len(chars) : chars[i] \in HostPatternChars

\* sanitizeInput(input, pattern, fieldName) with the host pattern (the module
\* pattern is the same class): throws InvalidParams for a non-string and for a
\* string the pattern rejects, returns input.trim() otherwise.
sanitizeInput(input) ==
  IF input.type # "string" THEN [ok |-> FALSE, value |-> <<>>]
  ELSE IF ~ALLOWED_HOST_PATTERN(input.chars) THEN [ok |-> FALSE, value |-> <<>>]
  ELSE [ok |-> TRUE, value |-> Trim(input.chars)]

\* ALLOWED_PLAYBOOK_PATTERN.test(input): one or more characters of the class,
\* then .yml or .yaml at the end of the input.
ALLOWED_PLAYBOOK_PATTERN(chars) ==
  \E ext \in { <<".", "y", "m", "l">>, <<".", "y", "a", "m", "l">> } :
    /\ Len(chars) > Len(ext)
    /\ SubSeq(chars, Len(chars) - Len(ext) + 1, Len(chars)) = ext
    /\ \A i \in 1..(Len(chars) - Len(ext)) : chars[i] \in HostPatternChars

\* sanitizeInput(input, ALLOWED_PLAYBOOK_PATTERN, 'playbook')
sanitizePlaybook(input) ==
  IF input.type # "string" THEN [ok |-> FALSE, value |-> <<>>]
  ELSE IF ~ALLOWED_PLAYBOOK_PATTERN(input.chars) THEN [ok |-> FALSE, value |-> <<>>]
  ELSE [ok |-> TRUE, value |-> Trim(input.chars)]

\* if (v): a JavaScript value is truthy unless it is undefined or ''.
Truthy(v) == ~(v.type = "undefined" \/ (v.type = "string" /\ v.chars = <<>>))

\* An object, such as the extraVars configureOpenWrtDevice builds.
AnObject == [type |-> "object", chars |-> <<>>]

\* CONFIG.PLAYBOOKS_PATH
PLAYBOOKS_PATH == <<"/", "p">>

\* The playbooks the convenience tools name.
ConfigurePlaybook == <<"c", "o", "n", "f", "i", "g", "u", "r", "e", "_", "b", "a", "n", "a", "n", "a", "_", "p", "i", ".", "y", "a", "m", "l">>
AdblockPlaybook == <<".", ".", "/", "a", "d", "b", "l", "o", "c", "k", ".", "y", "a", "m", "l">>

\* Requests to the convenience tools: each without its optional target, and
\* check_device_status and configure_openwrt_device also with the target the
\* schema gives as default; backup_device_config with its required host.
ConvenienceRequests ==
  { [tool |-> "check_device_status", hosts |-> Undefined, host |-> Undefined],
    [tool |-> "check_device_status", hosts |-> Str(<<"a", "l", "l">>),
     host |-> Undefined],
    [tool |-> "configure_openwrt_device", hosts |-> Undefined, host |-> Undefined],
    [tool |-> "configure_openwrt_device", hosts |-> Undefined,
     host |-> Str(<<"o", "p", "e", "n", "w", "r", "t">>)],
    [tool |-> "deploy_adblock", hosts |-> Undefined, host |-> Undefined],
    [tool |-> "backup_device_config", hosts |-> Undefined,
     host |-> Str(<<"r", "p", "i", "5">>)] }

\* The tools for LilyGo devices.
LilygoTools ==
  {"list_lilygo_devices", "flash_lilygo_firmware", "monitor_lilygo_serial",
   "send_lilygo_command"}

blockedModules ==
  { <<"s", "h", "e", "l", "l">>, <<"r", "a", "w">>,
    <<"s", "c", "r", "i", "p", "t">> }

\* Variant of the blocklist test that knows the shell module only.
Blocked_ShellOnly(module) == module = <<"s", "h", "e", "l", "l">>

\* blockedModules.includes(sanitizedModule)
Blocked(module) == module \in blockedModules

\* Arguments of run_ansible_command requests: a valid one, a host with a
\* forbidden character, a missing host, an empty host, a blocked module, an
\* empty args string, and missing args; then the other blocked modules, two
\* modules outside the blocklist, and a module name the pattern rejects.
ToolRequests ==
  { [hosts |-> Str(<<"a", "l", "l">>), module |-> Undefined,
     args |-> Str(<<"u", "p">>), become |-> FALSE],
    [hosts |-> Str(<<"a", ";", "x">>), module |-> Undefined,
     args |-> Str(<<"u", "p">>), become |-> FALSE],
    [hosts |-> Undefined, module |-> Undefined, args |-> Str(<<"u", "p">>), become |-> FALSE],
    [hosts |-> Str(<<>>), module |-> Undefined, args |-> Str(<<"u", "p">>), become |-> FALSE],
    [hosts |-> Str(<<"a", "l", "l">>), module |-> Str(<<"s", "h", "e", "l", "l">>),
     args |-> Str(<<"u", "p">>), become |-> FALSE],
    [hosts |-> Str(<<"a", "l", "l">>), module |-> Undefined, args |-> Str(<<>>),
     become |-> FALSE],
    [hosts |-> Str(<<"a", "l", "l">>), module |-> Undefined, args |-> Undefined,
     become |-> FALSE],
    [hosts |-> Str(<<"a", "l", "l">>), module |-> Str(<<"r", "a", "w">>),
     args |-> Str(<<"u", "p">>), become |-> FALSE],
    [hosts |-> Str(<<"a", "l", "l">>), module |-> Str(<<"s", "c", "r", "i", "p", "t">>),
     args |-> Str(<<"u", "p">>), become |-> FALSE],
    [hosts |-> Str(<<"a", "l", "l">>), module |-> Str(<<"s", "e", "t", "u", "p">>),
     args |-> Str(<<"u", "p">>), become |-> FALSE],
    [hosts |-> Str(<<"a", "l", "l">>),
     module |-> Str(<<"a", "n", "s", "i", "b", "l", "e", ".", "b", "u", "i", "l", "t", "i", "n", ".", "s", "h", "e", "l", "l">>),
     args |-> Str(<<"u", "p">>), become |-> FALSE],
    [hosts |-> Str(<<"a", "l", "l">>), module |-> Str(<<"s", "h", ";", "x">>),
     args |-> Str(<<"u", "p">>), become |-> FALSE] }

\* toolArgs of a call that no tool request made.
NoToolArgs ==
  [hosts |-> Undefined, module |-> Undefined, args |-> Undefined,
   become |-> FALSE]

\* Errors created as McpError where they are thrown; every other error is a
\* plain Error. NotFound is the McpError for a playbook or firmware file that
\* fs.access does not find.
IsMcpError(o) == o.kind \in {"RateLimited", "InvalidParams", "NotFound"}

\* The ErrorCode an McpError was created with.
ErrorCodeOf(o) ==
  IF o.kind \in {"InvalidParams", "NotFound"} THEN "InvalidParams"
  ELSE "InternalError"

\* The CallToolRequest handler around a tool: a result is returned as
\* content; an McpError is rethrown as it is; any other error is wrapped into
\* McpError(InternalError, 'Tool execution failed: ' + message).
CallToolResult(o) ==
  IF o.kind = "result"
  THEN [thrown |-> FALSE, code |-> "none", message |-> "content", wrapped |-> FALSE]
  ELSE IF IsMcpError(o)
  THEN [thrown |-> TRUE, code |-> ErrorCodeOf(o), message |-> o.kind, wrapped |-> FALSE]
  ELSE [thrown |-> TRUE, code |-> "InternalError", message |-> o.kind, wrapped |-> TRUE]

\* ------------------------------------------------- decider: command lines

\* Strings are sequences of characters; a word of fixed script text (a
\* program name, an option, a path) counts as one character.

\* The characters double quote, backslash and backtick.
DQ == "DQUOTE"
BS == "BACKSLASH"
BT == "BACKTICK"

\* Target hosts passed to execute_command (not validated by the decider).
DeciderHosts == { <<"h">>, <<"h", ";", "x">>, <<"h", " ", "x">> }

\* Commands passed to execute_command.
DeciderCommands ==
  { <<"l", "s">>,
    <<"l", "s", " ", "-", "l">>,
    <<"e", " ", DQ, "a", " ", "b", DQ>>,
    <<"$", "(", "x", ")">>,
    <<BT, "x", BT>>,
    <<"a", ";", "x">>,
    <<"a", BS>>,
    <<BS, DQ, ";", "x", ";", BS, DQ>>,
    <<"a", ">", "f">> }

\* command.replace: every double quote gets a backslash before it.
RECURSIVE EscapeQuotes(_)
EscapeQuotes(s) ==
  IF s = <<>> THEN <<>>
  ELSE IF Head(s) = DQ THEN <<BS, DQ>> \o EscapeQuotes(Tail(s))
  ELSE <<Head(s)>> \o EscapeQuotes(Tail(s))

\* ansible -i ${inventoryPath} -m command -a DQ ${escaped} DQ ${host}
AnsibleCmd(host, command) ==
  <<"ansible", " ", "-i", " ", "inventory.ini", " ", "-m", " ", "command", " ",
    "-a", " ", DQ>> \o EscapeQuotes(command) \o <<DQ, " ">> \o host

\* ${sshToolsPath} exec ${host} DQ ${escaped} DQ
SshCmd(host, command) ==
  <<"ssh-tools.sh", " ", "exec", " ">> \o host \o <<" ", DQ>>
    \o EscapeQuotes(command) \o <<DQ>>

\* The argument vector the caller means to run.
AnsibleArgv(host, command) ==
  << <<"ansible">>, <<"-i">>, <<"inventory.ini">>, <<"-m">>, <<"command">>,
     <<"-a">>, command, host >>

SshArgv(host, command) ==
  << <<"ssh-tools.sh">>, <<"exec">>, host, command >>

\* Characters the shell acts on outside quotes, and inside double quotes.
ShellMeta == {"$", BT, ";", "|", "&", ">", "<", "(", ")"}
ShellMetaDQ == {"$", BT}
ShellEscapableDQ == {DQ, BS, "$", BT}

\* What /bin/sh makes of a command line: the words of the (first) command it
\* runs, and whether it acted on a metacharacter or was left inside an open
\* quote. dq: inside double quotes; cur/open: the word being read.
RECURSIVE ShLex(_, _, _, _, _)
ShLex(s, dq, cur, open, out) ==
  IF s = <<>>
  THEN [argv |-> IF open THEN Append(out.argv, cur) ELSE out.argv,
        interpreted |-> out.interpreted \/ dq]
  ELSE LET ch == Head(s)
           rest == Tail(s)
       IN IF dq
          THEN IF ch = DQ THEN ShLex(rest, FALSE, cur, TRUE, out)
               ELSE IF ch = BS /\ rest # <<>> /\ Head(rest) \in ShellEscapableDQ
               THEN ShLex(Tail(rest), TRUE, Append(cur, Head(rest)), TRUE, out)
               ELSE IF ch \in ShellMetaDQ
               THEN ShLex(rest, TRUE, cur, TRUE, [out EXCEPT !.interpreted = TRUE])
               ELSE ShLex(rest, TRUE, Append(cur, ch), TRUE, out)
          ELSE IF ch = " "
               THEN ShLex(rest, FALSE, <<>>, FALSE,
                          IF open THEN [out EXCEPT !.argv = Append(@, cur)] ELSE out)
               ELSE IF ch = DQ THEN ShLex(rest, TRUE, cur, TRUE, out)
               ELSE IF ch = BS /\ rest # <<>>
               THEN ShLex(Tail(rest), FALSE, Append(cur, Head(rest)), TRUE, out)
               ELSE IF ch \in ShellMeta
               THEN ShLex(rest, FALSE, cur, open, [out EXCEPT !.interpreted = TRUE])
               ELSE ShLex(rest, FALSE, Append(cur, ch), TRUE, out)

Shell(line) == ShLex(line, FALSE, <<>>, FALSE, [argv |-> <<>>, interpreted |-> FALSE])

\* execSync(commandLine, ...): runs the line through /bin/sh -c.
ExecSync(backend, line) ==
  [api |-> "execSync", backend |-> backend, line |-> line,
   argv |-> Shell(line).argv, interpreted |-> Shell(line).interpreted]

NoExec ==
  [api |-> "none", backend |-> "none", line |-> <<>>, argv |-> <<>>,
   interpreted |-> FALSE]

\* --------------------------------------------------- decider: classifier

\* Bounds of the classifier inputs: words per command, words per description,
\* and evaluations of one input.
MaxCmdWords == 2
MaxDescWords == 1
MaxEvals == 2

\* String.prototype.toLowerCase on the letters A to Z.
LowerCaseOf ==
  [ A |-> "a", B |-> "b", C |-> "c", D |-> "d", E |-> "e", F |-> "f",
    G |-> "g", H |-> "h", I |-> "i", J |-> "j", K |-> "k", L |-> "l",
    M |-> "m", N |-> "n", O |-> "o", P |-> "p", Q |-> "q", R |-> "r",
    S |-> "s", T |-> "t", U |-> "u", V |-> "v", W |-> "w", X |-> "x",
    Y |-> "y", Z |-> "z" ]

Lower(ch) == IF ch \in DOMAIN LowerCaseOf THEN LowerCaseOf[ch] ELSE ch

ToLowerCase(s) == [i \in 1..Len(s) |-> Lower(s[i])]

\* String.prototype.includes
Includes(s, k) ==
  \E i \in 0..(Len(s) - Len(k)) : \A j \in 1..Len(k) : s[i + j] = k[j]

\* list.some(k => s.includes(k)), as the for loops of the rules compute it
IncludesAny(s, list) == \E n \in 1..Len(list) : Includes(s, list[n])

\* list.filter(k => s.includes(k)).length
CountIncluded(s, list) == Cardinality({n \in 1..Len(list) : Includes(s, list[n])})

\* const SUDO_INDICATORS
SUDO_INDICATORS ==
  << <<"s", "u", "d", "o">>, <<"s", "u", " ">>, <<"s", "u", " ", "-">>,
     <<"b", "e", "c", "o", "m", "e">>,
     <<"-", "-", "b", "e", "c", "o", "m", "e">>, <<"-", "b">>,
     <<"p", "r", "i", "v", "i", "l", "e", "g", "e", "s">>,
     <<"r", "o", "o", "t">>,
     <<"c", "h", "m", "o", "d", " ", "7", "7", "7">>,
     <<"c", "h", "m", "o", "d", " ", "+", "x">>,
     <<"c", "h", "o", "w", "n">>, <<"u", "s", "e", "r", "m", "o", "d">>,
     <<"g", "r", "o", "u", "p", "m", "o", "d">>,
     <<"p", "a", "s", "s", "w", "d">>,
     <<"s", "y", "s", "t", "e", "m", "c", "t", "l">>,
     <<"s", "e", "r", "v", "i", "c", "e", " ">>,
     <<"i", "n", "i", "t", ".", "d">>, <<"/", "e", "t", "c", "/">>,
     <<"m", "o", "u", "n", "t">>, <<"u", "m", "o", "u", "n", "t">>,
     <<"f", "d", "i", "s", "k">>, <<"m", "k", "f", "s">>,
     <<"f", "o", "r", "m", "a", "t">>,
     <<"p", "a", "r", "t", "i", "t", "i", "o", "n">> >>

\* const CONFIG_CHANGE_KEYWORDS (matched as plain text, also the entries that
\* look like patterns)
CONFIG_CHANGE_KEYWORDS ==
  << <<"i", "n", "s", "t", "a", "l", "l">>,
     <<"r", "e", "m", "o", "v", "e">>, <<"p", "u", "r", "g", "e">>,
     <<"u", "p", "g", "r", "a", "d", "e">>,
     <<"u", "p", "d", "a", "t", "e">>,
     <<"c", "o", "n", "f", "i", "g", "u", "r", "e">>,
     <<"s", "e", "t", "u", "p">>, <<"c", "r", "e", "a", "t", "e">>,
     <<"d", "e", "l", "e", "t", "e">>, <<"m", "o", "d", "i", "f", "y">>,
     <<"c", "h", "a", "n", "g", "e">>, <<"s", "e", "t">>,
     <<"e", "n", "a", "b", "l", "e">>,
     <<"d", "i", "s", "a", "b", "l", "e">>, <<"s", "t", "a", "r", "t">>,
     <<"s", "t", "o", "p">>, <<"r", "e", "s", "t", "a", "r", "t">>,
     <<"r", "e", "l", "o", "a", "d">>, <<"k", "i", "l", "l">>,
     <<"a", "d", "d">>, <<"a", "p", "p", "e", "n", "d">>,
     <<"r", "e", "p", "l", "a", "c", "e">>,
     <<"b", "a", "c", "k", "u", "p">>,
     <<"r", "e", "s", "t", "o", "r", "e">>, <<"m", "o", "u", "n", "t">>,
     <<"u", "n", "m", "o", "u", "n", "t">>,
     <<"f", "o", "r", "m", "a", "t">>, <<"m", "k", "f", "s">>,
     <<"f", "d", "i", "s", "k">>, <<"a", "p", "t">>, <<"y", "u", "m">>,
     <<"d", "n", "f">>, <<"p", "a", "c", "m", "a", "n">>,
     <<"b", "r", "e", "w">>, <<"p", "i", "p">>, <<"n", "p", "m">>,
     <<"g", "e", "m">>, <<"c", "a", "r", "g", "o">>,
     <<"w", "g", "e", "t">>, <<"c", "u", "r", "l", ".", "*", "-", "O">>,
     <<"g", "i", "t", " ", "c", "l", "o", "n", "e">>,
     <<"m", "k", "d", "i", "r">>, <<"t", "o", "u", "c", "h">>,
     <<"e", "c", "h", "o", ".", "*", ">">>, <<"c", "p", " ">>,
     <<"m", "v", " ">>, <<"l", "n", " ">>, <<"t", "a", "r", " ">>,
     <<"u", "n", "z", "i", "p">>, <<"g", "u", "n", "z", "i", "p">>,
     <<"g", "z", "i", "p">> >>

\* const STATUS_QUERY_KEYWORDS
STATUS_QUERY_KEYWORDS ==
  << <<"s", "t", "a", "t", "u", "s">>, <<"s", "h", "o", "w">>,
     <<"l", "i", "s", "t">>, <<"g", "e", "t">>,
     <<"c", "h", "e", "c", "k">>, <<"m", "o", "n", "i", "t", "o", "r">>,
     <<"p", "s">>, <<"t", "o", "p">>, <<"d", "f">>, <<"f", "r", "e", "e">>,
     <<"u", "p", "t", "i", "m", "e">>, <<"w", "h", "o">>, <<"w">>,
     <<"t", "a", "i", "l">>, <<"h", "e", "a", "d">>,
     <<"g", "r", "e", "p">>, <<"f", "i", "n", "d">>, <<"l", "s">>,
     <<"c", "a", "t">>, <<"e", "c", "h", "o">>, <<"d", "a", "t", "e">>,
     <<"h", "o", "s", "t", "n", "a", "m", "e">>,
     <<"i", "f", "c", "o", "n", "f", "i", "g">>, <<"i", "p">>,
     <<"n", "e", "t", "s", "t", "a", "t">>, <<"s", "s">>, <<"d", "u">>,
     <<"p", "w", "d">>, <<"i", "d">>, <<"w", "h", "o", "a", "m", "i">>,
     <<"e", "n", "v">>, <<"p", "r", "i", "n", "t", "e", "n", "v">>,
     <<"h", "i", "s", "t", "o", "r", "y">> >>

\* const IDEMPOTENT_OPERATIONS
IDEMPOTENT_OPERATIONS ==
  << <<"a", "p", "t">>, <<"y", "u", "m">>, <<"d", "n", "f">>,
     <<"p", "a", "c", "m", "a", "n">>, <<"b", "r", "e", "w">>,
     <<"p", "i", "p">>, <<"n", "p", "m">>, <<"g", "e", "m">>,
     <<"s", "y", "s", "t", "e", "m", "c", "t", "l">>,
     <<"s", "e", "r", "v", "i", "c", "e">>,
     <<"c", "h", "k", "c", "o", "n", "f", "i", "g">>,
     <<"u", "p", "d", "a", "t", "e", "-", "r", "c", ".", "d">>,
     <<"u", "s", "e", "r", "a", "d", "d">>,
     <<"u", "s", "e", "r", "m", "o", "d">>,
     <<"g", "r", "o", "u", "p", "a", "d", "d">>,
     <<"g", "r", "o", "u", "p", "m", "o", "d">>,
     <<"m", "k", "d", "i", "r">>, <<"t", "o", "u", "c", "h">>,
     <<"c", "h", "o", "w", "n">>, <<"c", "h", "m", "o", "d">>,
     <<"l", "n", " ", "-", "s">> >>

\* The texts rule 3 looks for.
NETWORK_INDICATORS ==
  << <<"i", "p", "t", "a", "b", "l", "e", "s">>, <<"u", "f", "w">>,
     <<"f", "i", "r", "e", "w", "a", "l", "l">>,
     <<"r", "o", "u", "t", "e">>,
     <<"i", "f", "c", "o", "n", "f", "i", "g">>,
     <<"i", "p", " ", "a", "d", "d", "r">> >>

\* const ANSIBLE_KEYWORDS of the keyword-count decider
ANSIBLE_KEYWORDS ==
  << <<"i", "n", "s", "t", "a", "l", "l">>,
     <<"c", "o", "n", "f", "i", "g", "u", "r", "e">>,
     <<"r", "e", "m", "o", "v", "e">>, <<"k", "i", "l", "l">>,
     <<"m", "o", "d", "i", "f", "y">>, <<"c", "h", "a", "n", "g", "e">>,
     <<"u", "p", "d", "a", "t", "e">>, <<"c", "r", "e", "a", "t", "e">>,
     <<"d", "e", "l", "e", "t", "e">>, <<"s", "e", "t">>,
     <<"e", "n", "a", "b", "l", "e">>,
     <<"d", "i", "s", "a", "b", "l", "e">>,
     <<"r", "e", "s", "t", "a", "r", "t">>, <<"s", "t", "o", "p">>,
     <<"s", "t", "a", "r", "t">>, <<"u", "p", "g", "r", "a", "d", "e">>,
     <<"d", "o", "w", "n", "g", "r", "a", "d", "e">>, <<"a", "d", "d">>,
     <<"a", "p", "p", "e", "n", "d">>,
     <<"r", "e", "p", "l", "a", "c", "e">>,
     <<"b", "a", "c", "k", "u", "p">>,
     <<"r", "e", "s", "t", "o", "r", "e">>, <<"m", "o", "u", "n", "t">>,
     <<"u", "n", "m", "o", "u", "n", "t">>,
     <<"f", "o", "r", "m", "a", "t">>,
     <<"p", "a", "r", "t", "i", "t", "i", "o", "n">>,
     <<"s", "e", "r", "v", "i", "c", "e">>,
     <<"s", "y", "s", "t", "e", "m", "c", "t", "l">>, <<"a", "p", "t">>,
     <<"y", "u", "m">>, <<"d", "n", "f">>,
     <<"p", "a", "c", "m", "a", "n">>, <<"b", "r", "e", "w">>,
     <<"p", "i", "p">>, <<"n", "p", "m">>, <<"g", "e", "m">> >>

\* const SSH_KEYWORDS of the keyword-count decider
SSH_KEYWORDS ==
  << <<"s", "t", "a", "t", "u", "s">>, <<"s", "h", "o", "w">>,
     <<"l", "i", "s", "t">>, <<"g", "e", "t">>,
     <<"c", "h", "e", "c", "k">>, <<"m", "o", "n", "i", "t", "o", "r">>,
     <<"p", "s">>, <<"t", "o", "p">>, <<"d", "f">>, <<"f", "r", "e", "e">>,
     <<"u", "p", "t", "i", "m", "e">>, <<"w", "h", "o">>, <<"w">>,
     <<"t", "a", "i", "l">>, <<"h", "e", "a", "d">>,
     <<"g", "r", "e", "p">>, <<"f", "i", "n", "d">>, <<"l", "s">>,
     <<"c", "a", "t">>, <<"e", "c", "h", "o">>, <<"d", "a", "t", "e">>,
     <<"h", "o", "s", "t", "n", "a", "m", "e">>,
     <<"i", "f", "c", "o", "n", "f", "i", "g">>, <<"i", "p">>,
     <<"n", "e", "t", "s", "t", "a", "t">>, <<"s", "s">> >>


\* (description + " " + command).toLowerCase()
TextOf(description, command) == ToLowerCase(description \o <<" ">> \o command)

\* RULE 1: the command writes to a file.
Rule1(cmd) ==
  \/ Includes(cmd, <<">">>)
  \/ Includes(cmd, <<">", ">">>)
  \/ Includes(cmd, <<"|", " ", "t", "e", "e">>)
  \/ /\ Includes(cmd, <<"e", "c", "h", "o">>)
     /\ Includes(cmd, <<">">>) \/ Includes(cmd, <<">", ">">>)

\* Variant of rule 2 that never matches.
Rule2_Off(cmd) == FALSE

\* RULE 2: the command holds a sudo / privilege indicator.
Rule2(cmd) == IncludesAny(cmd, SUDO_INDICATORS)

\* const SUDO_INDICATORS of scripts/test_decision_logic.js
SUDO_INDICATORS_TestCopy ==
  << <<"s", "u", "d", "o">>, <<"s", "u", " ">>, <<"s", "u", " ", "-">>,
     <<"b", "e", "c", "o", "m", "e">>,
     <<"p", "r", "i", "v", "i", "l", "e", "g", "e", "s">>,
     <<"r", "o", "o", "t">>,
     <<"c", "h", "m", "o", "d", " ", "7", "7", "7">>,
     <<"c", "h", "m", "o", "d", " ", "+", "x">>,
     <<"c", "h", "o", "w", "n">>, <<"u", "s", "e", "r", "m", "o", "d">>,
     <<"g", "r", "o", "u", "p", "m", "o", "d">>,
     <<"p", "a", "s", "s", "w", "d">>,
     <<"s", "y", "s", "t", "e", "m", "c", "t", "l">>,
     <<"s", "e", "r", "v", "i", "c", "e", " ">>,
     <<"i", "n", "i", "t", ".", "d">>, <<"/", "e", "t", "c", "/">>,
     <<"m", "o", "u", "n", "t">>, <<"u", "m", "o", "u", "n", "t">>,
     <<"f", "d", "i", "s", "k">>, <<"m", "k", "f", "s">>,
     <<"f", "o", "r", "m", "a", "t">>,
     <<"p", "a", "r", "t", "i", "t", "i", "o", "n">> >>

\* RULE 2 of the test script's copy.
Rule2_TestCopy(cmd) == IncludesAny(cmd, SUDO_INDICATORS_TestCopy)

\* RULE 3: network configuration.
Rule3(cmd) == IncludesAny(cmd, NETWORK_INDICATORS)

\* Variant of rule 4 that never matches.
Rule4_Off(cmd) == FALSE

\* RULE 4: idempotent package / service management operation.
Rule4(cmd) == IncludesAny(cmd, IDEMPOTENT_OPERATIONS)

\* RULE 5: configuration change keyword in description or command.
Rule5(text) == IncludesAny(text, CONFIG_CHANGE_KEYWORDS)

\* RULE 6: status query keyword in description or command.
Rule6(text) == IncludesAny(text, STATUS_QUERY_KEYWORDS)

\* Variant of cmd that holds the description as well.
CmdOf_WholeText(description, command) == TextOf(description, command)

\* const cmd = command.toLowerCase(): what rules 1 to 4 look at.
CmdOf(description, command) == ToLowerCase(command)

\* The rule whose return statement ends shouldUseAnsible (the one its log
\* line on stderr names); 7 is the default at the end.
RuleFired(description, command) ==
  LET text == TextOf(description, command)
      cmd == CmdOf(description, command)
  IN IF Rule1(cmd) THEN 1
     ELSE IF Rule2(cmd) THEN 2
     ELSE IF Rule3(cmd) THEN 3
     ELSE IF Rule4(cmd) THEN 4
     ELSE IF Rule5(text) THEN 5
     ELSE IF Rule6(text) THEN 6
     ELSE 7

\* The rule that ends the test script's copy of shouldUseAnsible: the same
\* cascade over the script's own keyword lists.
RuleFired_TestCopy(description, command) ==
  LET text == TextOf(description, command)
      cmd == CmdOf(description, command)
  IN IF Rule1(cmd) THEN 1
     ELSE IF Rule2_TestCopy(cmd) THEN 2
     ELSE IF Rule3(cmd) THEN 3
     ELSE IF Rule4(cmd) THEN 4
     ELSE IF Rule5(text) THEN 5
     ELSE IF Rule6(text) THEN 6
     ELSE 7

\* Variant of the return values in which the default is Ansible.
Decision_DefaultAnsible(rule) == rule # 6

\* The value each rule returns: true (Ansible) for rules 1 to 5, false (SSH)
\* for rule 6 and for the default.
Decision(rule) == rule <= 5

\* Variant of shouldUseAnsible whose answer flips once an evaluation has been
\* made (matching through a shared pattern object that keeps its position).
shouldUseAnsible_Stateful(description, command) ==
  [useAnsible |-> IF dEvals = 0
                  THEN Decision(RuleFired(description, command))
                  ELSE ~Decision(RuleFired(description, command)),
   rule |-> RuleFired(description, command)]

\* shouldUseAnsible(description, command) of the rule-cascade decider:
\* useAnsible is the boolean it returns, rule is what it logs.
shouldUseAnsible(description, command) ==
  [useAnsible |-> Decision(RuleFired(description, command)),
   rule |-> RuleFired(description, command)]

\* shouldUseAnsible(description, command) of scripts/test_decision_logic.js
shouldUseAnsible_TestCopy(description, command) ==
  [useAnsible |-> Decision(RuleFired_TestCopy(description, command)),
   rule |-> RuleFired_TestCopy(description, command)]

\* shouldUseAnsible(description, command) of the keyword-count decider.
shouldUseAnsible_KeywordCount(description, command) ==
  [useAnsible |-> CountIncluded(TextOf(description, command), ANSIBLE_KEYWORDS)
                    > CountIncluded(TextOf(description, command), SSH_KEYWORDS),
   rule |-> 0]

NoDecision == [useAnsible |-> FALSE, rule |-> 0]

\* Words commands and descriptions are made of.
CmdWords ==
  { <<"l", "s">>,
    <<"z", "z">>,
    <<">">>,
    <<"|", "t", "e", "e">>,
    <<"|", " ", "t", "e", "e">>,
    <<"S", "u", "d", "o">>,
    <<"c", "h", "m", "o", "d">>,
    <<"u", "f", "w">>,
    <<"r", "e", "s", "t", "a", "r", "t">> }

DescWords ==
  { <<"C", "h", "e", "c", "k">>,
    <<"r", "e", "s", "t", "a", "r", "t">>,
    <<"z", "z">> }

RECURSIVE Join(_)
Join(ws) ==
  IF ws = <<>> THEN <<>>
  ELSE IF Len(ws) = 1 THEN ws[1]
  ELSE ws[1] \o <<" ">> \o Join(Tail(ws))

WordSeqs(W, n) == UNION { [1..k -> W] : k \in 0..n }

\* Commands and descriptions handed to shouldUseAnsible, the empty ones
\* included.
ClassifierCommands == { Join(ws) : ws \in WordSeqs(CmdWords, MaxCmdWords) }
ClassifierDescriptions == { Join(ws) : ws \in WordSeqs(DescWords, MaxDescWords) }
ClassifierInputs == [description : ClassifierDescriptions, command : ClassifierCommands]

NoInput == [description |-> <<>>, command |-> <<>>]

\* Inputs on which the server's decider, the test script's copy and
\* different descriptions of one command are compared.
CompareCommands ==
  { <<"l", "s">>, <<"l", "s", " ", "-", "b">>, <<"z", "z">>, <<"a", " ", ">", " ", "f">>, <<"S", "u", "d", "o", " ", "l", "s">>,
    <<"u", "f", "w">>, <<"a", "p", "t">>, <<"r", "e", "s", "t", "a", "r", "t">>, <<"x", " ", "-", "-", "b", "e", "c", "o", "m", "e">>,
    <<"d", "u", " ", "-", "b", " ", "x">> }
CompareDescriptions ==
  { <<>>, <<"C", "h", "e", "c", "k">>, <<"r", "e", "s", "t", "a", "r", "t">>, <<"s", "u", "d", "o">>,
    <<"a", " ", ">", " ", "f">>, <<"z", "z">> }
CompareInputs == [description : CompareDescriptions, command : CompareCommands]

\* Descriptions passed to execute_command.
DeciderDescriptions == { <<>>, <<"r", "e", "s", "t", "a", "r", "t">> }

\* ------------------------------------------- documents server: path check

\* Longest requested path (in characters).
MaxPathLen == 5

\* Characters of requested paths: the separator, the dot, and a letter.
PathChars == {"/", ".", "D"}

\* The paths handed to validateDocumentsPath, the empty one included.
RequestedPaths == UNION { [1..n -> PathChars] : n \in 0..MaxPathLen }

\* getDocumentsPath(): join(homedir(), 'Documents'), with home directory /h.
documentsPath == <<"/", "h", "/", "D">>

\* The segments between the separators of a path, the empty ones included.
RECURSIVE Split(_, _, _)
Split(path, cur, out) ==
  IF path = <<>> THEN Append(out, cur)
  ELSE IF Head(path) = "/" THEN Split(Tail(path), <<>>, Append(out, cur))
  ELSE Split(Tail(path), Append(cur, Head(path)), out)

\* normalizeString of an absolute path: empty and '.' segments are dropped,
\* '..' removes the segment before it and is dropped at the root.
RECURSIVE Resolve(_, _)
Resolve(segments, out) ==
  IF segments = <<>> THEN out
  ELSE LET seg == Head(segments)
       IN IF seg = <<>> \/ seg = <<".">>
          THEN Resolve(Tail(segments), out)
          ELSE IF seg = <<".", ".">>
          THEN Resolve(Tail(segments),
                       IF out = <<>> THEN out ELSE SubSeq(out, 1, Len(out) - 1))
          ELSE Resolve(Tail(segments), Append(out, seg))

RECURSIVE Render(_)
Render(segments) ==
  IF segments = <<>> THEN <<>>
  ELSE IF Len(segments) = 1 THEN segments[1]
  ELSE segments[1] \o <<"/">> \o Render(Tail(segments))

\* path.normalize of an absolute path; a trailing separator is kept.
Normalize(path) ==
  LET segments == Resolve(Split(path, <<>>, <<>>), <<>>)
  IN IF segments = <<>> THEN <<"/">>
     ELSE <<"/">> \o Render(segments)
            \o (IF path[Len(path)] = "/" THEN <<"/">> ELSE <<>>)

\* path.join(base, requested) for an absolute base: empty arguments are left
\* out, the rest are joined with the separator and normalized.
PathJoin(base, requested) ==
  IF requested = <<>> THEN Normalize(base)
  ELSE Normalize(base \o <<"/">> \o requested)

\* String.prototype.startsWith
StartsWith(str, prefix) ==
  /\ Len(str) >= Len(prefix)
  /\ SubSeq(str, 1, Len(prefix)) = prefix

\* Variant of validateDocumentsPath with the prefix test only.
validateDocumentsPath_PrefixOnly(path) ==
  LET fullPath == PathJoin(documentsPath, path)
  IN IF ~StartsWith(fullPath, documentsPath)
     THEN [thrown |-> TRUE, fullPath |-> <<>>]
     ELSE [thrown |-> FALSE, fullPath |-> fullPath]

\* validateDocumentsPath(requestedPath): throws McpError(InvalidParams), or
\* returns the joined path.
validateDocumentsPath(path) ==
  LET fullPath == PathJoin(documentsPath, path)
  IN IF ~StartsWith(fullPath, documentsPath)
     THEN [thrown |-> TRUE, fullPath |-> <<>>]
     ELSE IF Includes(path, <<".", ".">>) \/ Includes(path, <<".", ".", "/">>)
     THEN [thrown |-> TRUE, fullPath |-> <<>>]
     ELSE [thrown |-> FALSE, fullPath |-> fullPath]

\* The environment of the checks on admission and timing: the configured
\* limit, and a random source that gives every call an id of its own.
DefaultEnv ==
  [MAX_CONCURRENT_COMMANDS |-> MAX_CONCURRENT_COMMANDS,
   random |-> [c \in Calls |-> c]]

\* Math.random gives no guarantee that two calls get different values: the
\* environments in which any call may draw any of the ids, with room for one
\* more concurrent command than the limit of the other checks.
AnyIdEnvs ==
  { [MAX_CONCURRENT_COMMANDS |-> MAX_CONCURRENT_COMMANDS + 1, random |-> r] :
      r \in [Calls -> Calls] }

\* validateDocumentsPath has not been called.
NoPath == <<>>
NotValidated == [thrown |-> FALSE, fullPath |-> <<>>]

\* The Ansible server after construction, in environment e.
InitExecIn(e) ==
  /\ env = e
  /\ tool = [c \in Calls |-> "none"]
  /\ pc = [c \in Calls |-> "idle"]
  /\ req = [c \in Calls |-> NoRequest]
  /\ outcome = [c \in Calls |-> Pending]
  /\ activeCommands = {}
  /\ child = [c \in Calls |-> "none"]
  /\ killed = [c \in Calls |-> FALSE]
  /\ exitCode = [c \in Calls |-> Null]
  /\ spawnTimer = [c \in Calls |-> "off"]
  /\ explTimer = [c \in Calls |-> "off"]
  /\ stdout = [c \in Calls |-> <<>>]
  /\ stderr = [c \in Calls |-> <<>>]
  /\ toolArgs = [c \in Calls |-> NoToolArgs]

\* The Ansible server after construction.
InitExec == InitExecIn(DefaultEnv)

\* The decider before any request, with the input it is about to be given.
InitDecider(input) ==
  /\ dExec = NoExec
  /\ dResult = "none"
  /\ dInput = input
  /\ dVersion = "none"
  /\ dDecision = NoDecision
  /\ dEvals = 0
  /\ dPrev = NoDecision
  /\ dInvoked = <<>>
  /\ dResponse = "none"

\* The documents server with the path it is about to be given.
InitDocs(path) ==
  /\ requestedPath = path
  /\ validated = NotValidated

Init == InitExec /\ InitDecider(NoInput) /\ InitDocs(NoPath)

\* The classifier about to be applied to one (description, command) pair.
InitClassify ==
  /\ InitExec
  /\ InitDocs(NoPath)
  /\ \E input \in ClassifierInputs : InitDecider(input)

\* ----------------------------------------------------------------- actions

\* runCommand(command, args, options), from its entry to the first await:
\* capacity gate, registration, and the whole promise executor.
RunCommand(c, r) ==
  /\ pc[c] = "idle"
  /\ \A d \in Calls : d < c => pc[d] # "idle"
  /\ req' = [req EXCEPT ![c] = r]
  /\ UNCHANGED <<deciderVars, docVars, env, killed, exitCode, stdout, stderr>>
  /\ IF AtCapacity(activeCommands)
     THEN /\ pc' = [pc EXCEPT ![c] = "done"]
          /\ outcome' = [outcome EXCEPT ![c] = Err("RateLimited")]
          /\ UNCHANGED <<activeCommands, child, spawnTimer, explTimer>>
     ELSE /\ activeCommands' = activeCommands \cup {commandId(c)}
          /\ pc' = [pc EXCEPT ![c] = "awaiting"]
          /\ IF ~Allowed(r.command)
             THEN /\ outcome' = [outcome EXCEPT ![c] = Err("NotAllowed")]
                  /\ UNCHANGED <<child, spawnTimer, explTimer>>
             ELSE IF ~r.argsOk
             THEN /\ outcome' = [outcome EXCEPT ![c] = Err("InvalidArgument")]
                  /\ UNCHANGED <<child, spawnTimer, explTimer>>
             ELSE /\ \E started \in BOOLEAN :
                       child' = [child EXCEPT ![c] =
                                   IF started THEN "running" ELSE "spawnerr"]
                  /\ spawnTimer' = [spawnTimer EXCEPT ![c] = "armed"]
                  /\ explTimer' = [explTimer EXCEPT ![c] = "armed"]
                  /\ UNCHANGED outcome

\* The continuation after `await`: the finally block, then return / rethrow.
Resume(c) ==
  /\ pc[c] = "awaiting"
  /\ outcome[c].kind # "pending"
  /\ activeCommands' = Release(activeCommands, c)
  /\ pc' = [pc EXCEPT ![c] = "done"]
  /\ UNCHANGED <<deciderVars, docVars, toolArgs, tool, env, req, outcome, child, killed, exitCode, spawnTimer, explTimer,
                 stdout, stderr>>

\* child.stdout 'data'
StdoutData(c, chunk) ==
  /\ child[c] \in {"running", "exited"}
  /\ Len(stdout[c]) < MaxOut
  /\ stdout' = [stdout EXCEPT ![c] = @ \o chunk]
  /\ UNCHANGED <<deciderVars, docVars, toolArgs, tool, env, pc, req, outcome, activeCommands, child, killed, exitCode,
                 spawnTimer, explTimer, stderr>>

\* child.stderr 'data'
StderrData(c, chunk) ==
  /\ child[c] \in {"running", "exited"}
  /\ Len(stderr[c]) < MaxOut
  /\ stderr' = [stderr EXCEPT ![c] = @ \o chunk]
  /\ UNCHANGED <<deciderVars, docVars, toolArgs, tool, env, pc, req, outcome, activeCommands, child, killed, exitCode,
                 spawnTimer, explTimer, stdout>>

\* Codes a child can exit with: its own code, or none when a signal ended it.
ExitCodes(c) == IF killed[c] THEN {Null, 1} ELSE {0, 1}

\* The child process ends ('exit'): spawn()'s own listener clears its timer.
ChildExit(c, code) ==
  /\ child[c] = "running"
  /\ child' = [child EXCEPT ![c] = "exited"]
  /\ exitCode' = [exitCode EXCEPT ![c] = code]
  /\ spawnTimer' = [spawnTimer EXCEPT ![c] = IF @ = "armed" THEN "cleared" ELSE @]
  /\ UNCHANGED <<deciderVars, docVars, toolArgs, tool, env, pc, req, outcome, activeCommands, killed, explTimer, stdout, stderr>>

\* child.on('error'): the process could not be started.
ChildError(c) ==
  /\ child[c] = "spawnerr"
  /\ child' = [child EXCEPT ![c] = "exited"]
  /\ outcome' = [outcome EXCEPT ![c] = Settle(@, Err("SpawnFailed"))]
  /\ UNCHANGED <<deciderVars, docVars, toolArgs, tool, env, pc, req, activeCommands, killed, exitCode, spawnTimer, explTimer,
                 stdout, stderr>>

\* child.on('close'): the process has ended and its streams are closed.
ChildClose(c) ==
  /\ child[c] = "exited"
  /\ child' = [child EXCEPT ![c] = "closed"]
  /\ outcome' = [outcome EXCEPT ![c] =
                   Settle(@, Result(exitCode[c], stdout[c], stderr[c]))]
  /\ UNCHANGED <<deciderVars, docVars, toolArgs, tool, env, pc, req, activeCommands, killed, exitCode, spawnTimer, explTimer,
                 stdout, stderr>>

\* Variant of kill that reports a signal sent whatever the child's state.
KilledAfterKill_Always(c) == TRUE

\* child.kill('SIGTERM'): delivers the signal and sets child.killed only while
\* the process handle exists.
KilledAfterKill(c) == killed[c] \/ child[c] = "running"

\* The timer of the spawn 'timeout' option fires: child.kill(killSignal).
SpawnTimerFire(c) ==
  /\ spawnTimer[c] = "armed"
  /\ SpawnTimerFirst(req[c]) \/ explTimer[c] # "armed"
  /\ spawnTimer' = [spawnTimer EXCEPT ![c] = "fired"]
  /\ killed' = [killed EXCEPT ![c] = KilledAfterKill(c)]
  /\ UNCHANGED <<deciderVars, docVars, toolArgs, tool, env, pc, req, outcome, activeCommands, child, exitCode, explTimer,
                 stdout, stderr>>

\* if (!child.killed) in the explicit timeout handler
TimeoutHandlerActs(c) == ~killed[c]

\* The explicit setTimeout handler.
ExplicitTimerFire(c) ==
  /\ explTimer[c] = "armed"
  /\ ~SpawnTimerFirst(req[c]) \/ spawnTimer[c] # "armed"
  /\ explTimer' = [explTimer EXCEPT ![c] = "fired"]
  /\ IF TimeoutHandlerActs(c)
     THEN /\ killed' = [killed EXCEPT ![c] = KilledAfterKill(c)]
          /\ outcome' = [outcome EXCEPT ![c] = Settle(@, Err("Timeout"))]
     ELSE UNCHANGED <<killed, outcome>>
  /\ UNCHANGED <<deciderVars, docVars, toolArgs, tool, env, pc, req, activeCommands, child, exitCode, spawnTimer, stdout, stderr>>

\* run_ansible_command: validation of hosts and module, the module blocklist,
\* then runCommand('ansible', [..., args.args]) up to its first await.
runAnsibleCommand(c, a) ==
  /\ pc[c] = "idle"
  /\ \A d \in Calls : d < c => pc[d] # "idle"
  /\ toolArgs' = [toolArgs EXCEPT ![c] = a]
  /\ LET sanitizedHosts == sanitizeInput(a.hosts)
         sanitizedModule == sanitizeInput(OrElse(a.module, Str(<<"c", "o", "m", "m", "a", "n", "d">>)))
     IN IF ~sanitizedHosts.ok \/ ~sanitizedModule.ok
           \/ Blocked(sanitizedModule.value)
        THEN /\ pc' = [pc EXCEPT ![c] = "done"]
             /\ outcome' = [outcome EXCEPT ![c] = Err("InvalidParams")]
             /\ UNCHANGED <<deciderVars, docVars, env, req, activeCommands, child, killed, exitCode,
                            spawnTimer, explTimer, stdout, stderr>>
        ELSE RunCommand(c, [command |-> "ansible",
                            argsOk |-> a.args.type = "string",
                            timeout |-> COMMAND_TIMEOUT,
                            args |-> <<Str(<<"-i">>), Str(<<"inventory.ini">>)>>
                                     \o (IF a.become THEN <<Str(<<"-b">>)>> ELSE <<>>)
                                     \o <<Str(sanitizedHosts.value), Str(<<"-m">>),
                                          Str(sanitizedModule.value), Str(<<"-a">>),
                                          a.args>>])

\* run_playbook, with its awaits of fs.access and of runCommand taken at the
\* moment runCommand is entered (nothing before touches shared state):
\* playbook name check, path check, fs.access, the optional host limit and
\* extra variables, then runCommand('ansible-playbook', ansibleArgs).
runPlaybook(c, a) ==
  /\ pc[c] = "idle"
  /\ \A d \in Calls : d < c => pc[d] # "idle"
  /\ toolArgs' = [toolArgs EXCEPT ![c] = a]
  /\ LET sanitizedPlaybook == sanitizePlaybook(a.playbook)
         playbookPath == PathJoin(PLAYBOOKS_PATH, sanitizedPlaybook.value)
         sanitizedHosts == sanitizeInput(a.hosts)
     IN \E found \in BOOLEAN :
          IF \/ ~sanitizedPlaybook.ok
             \/ ~StartsWith(playbookPath, PLAYBOOKS_PATH)
             \/ ~found
             \/ Truthy(a.hosts) /\ ~sanitizedHosts.ok
          THEN /\ pc' = [pc EXCEPT ![c] = "done"]
               /\ outcome' = [outcome EXCEPT ![c] =
                                IF sanitizedPlaybook.ok
                                   /\ StartsWith(playbookPath, PLAYBOOKS_PATH)
                                   /\ ~found
                                THEN Err("NotFound") ELSE Err("InvalidParams")]
               /\ UNCHANGED <<deciderVars, docVars, env, req, activeCommands, child,
                              killed, exitCode, spawnTimer, explTimer, stdout, stderr>>
          ELSE RunCommand(c, [command |-> "ansible-playbook",
                              argsOk |-> TRUE,
                              timeout |-> COMMAND_TIMEOUT,
                              args |-> <<Str(<<"-i">>), Str(<<"inventory.ini">>),
                                         Str(playbookPath)>>
                                       \o (IF Truthy(a.hosts)
                                           THEN <<Str(<<"-l">>), Str(sanitizedHosts.value)>>
                                           ELSE <<>>)
                                       \o (IF Truthy(a.extra_vars)
                                           THEN <<Str(<<"--extra-vars">>), Str(<<"{}">>)>>
                                           ELSE <<>>)])

\* configure_openwrt_device
configureOpenWrtDevice(c, args) ==
  runPlaybook(c, [playbook |-> Str(ConfigurePlaybook), hosts |-> args.host,
                  extra_vars |-> AnObject])

\* check_device_status
checkDeviceStatus(c, args) ==
  runAnsibleCommand(c, [hosts |-> args.hosts,
                        module |-> Str(<<"s", "e", "t", "u", "p">>),
                        args |-> Str(<<"filter=ansible_distribution*">>),
                        become |-> FALSE])

\* backup_device_config without backup_type
backupDeviceConfig(c, args) ==
  runAnsibleCommand(c, [hosts |-> args.host,
                        module |-> Str(<<"s", "e", "t", "u", "p">>),
                        args |-> Str(<<"gather_subset=!all">>),
                        become |-> TRUE])

\* deploy_adblock
deployAdblock(c, args) ==
  runPlaybook(c, [playbook |-> Str(AdblockPlaybook), hosts |-> args.host,
                  extra_vars |-> Undefined])

\* list_lilygo_devices up to its first runCommand; the ioreg call comes after
\* a result of this one.
listLilygoDevices(c) ==
  /\ RunCommand(c, [command |-> "ls", argsOk |-> TRUE, timeout |-> COMMAND_TIMEOUT,
                    args |-> <<Str(<<"/dev/cu.usbmodem*">>),
                               Str(<<"/dev/tty.usbmodem*">>)>>])
  /\ UNCHANGED toolArgs

\* flash_lilygo_firmware up to its first runCommand: fs.access of the firmware
\* file, then the esptool check; erase and flash come after a result of it.
flashLilygoFirmware(c) ==
  /\ UNCHANGED toolArgs
  /\ \E found \in BOOLEAN :
       IF ~found
       THEN /\ pc[c] = "idle"
            /\ \A d \in Calls : d < c => pc[d] # "idle"
            /\ pc' = [pc EXCEPT ![c] = "done"]
            /\ outcome' = [outcome EXCEPT ![c] = Err("NotFound")]
            /\ UNCHANGED <<deciderVars, docVars, env, req, activeCommands, child,
                           killed, exitCode, spawnTimer, explTimer, stdout, stderr>>
       ELSE RunCommand(c, [command |-> "python", argsOk |-> TRUE,
                           timeout |-> COMMAND_TIMEOUT,
                           args |-> <<Str(<<"-m">>), Str(<<"esptool">>),
                                      Str(<<"version">>)>>])

\* monitor_lilygo_serial with the default duration of 10 seconds
monitorLilygoSerial(c) ==
  /\ RunCommand(c, [command |-> "timeout", argsOk |-> TRUE,
                    timeout |-> (10 + 2) * 1000,
                    args |-> <<Str(<<"10">>), Str(<<"screen">>),
                               Str(<<"/dev/cu.usbmodem21101">>), Str(<<"115200">>)>>])
  /\ UNCHANGED toolArgs

\* send_lilygo_command with the default wait of 2 seconds
sendLilygoCommand(c) ==
  /\ RunCommand(c, [command |-> "sh", argsOk |-> TRUE,
                    timeout |-> (2 + 2) * 1000,
                    args |-> <<Str(<<"-c">>), Str(<<"echo ... > device && timeout 2 cat device">>)>>])
  /\ UNCHANGED toolArgs

\* One step of call c without output events.
CallStep(c) ==
  \/ \E r \in Requests : RunCommand(c, r) /\ UNCHANGED <<toolArgs, tool>>
  \/ Resume(c)
  \/ \E code \in ExitCodes(c) : ChildExit(c, code)
  \/ ChildError(c)
  \/ ChildClose(c)
  \/ SpawnTimerFire(c)
  \/ ExplicitTimerFire(c)

\* One output event of call c.
DataStep(c) ==
  \/ \E chunk \in Chunks : StdoutData(c, chunk)
  \/ \E chunk \in Chunks : StderrData(c, chunk)

\* ------------------------------------------------------- decider actions

\* executeWithAnsible(host, command): returns execSync's output, or throws
\* 'Ansible execution failed' when execSync throws (non-zero exit).
executeWithAnsible(host, command) ==
  /\ dExec' = ExecSync("ansible", AnsibleCmd(host, command))
  /\ \E r \in {"returned", "threw"} : dResult' = r
  /\ UNCHANGED <<execVars, docVars>>

\* executeWithSSH(host, command)
executeWithSSH(host, command) ==
  /\ dExec' = ExecSync("ssh", SshCmd(host, command))
  /\ \E r \in {"returned", "threw"} : dResult' = r
  /\ UNCHANGED <<execVars, docVars>>

\* Decider state that executeWithAnsible and executeWithSSH do not touch.
routingVars == <<dInput, dVersion, dDecision, dEvals, dPrev, dInvoked, dResponse>>

NextDecider ==
  \E host \in DeciderHosts, command \in DeciderCommands :
    \/ executeWithAnsible(host, command) /\ UNCHANGED routingVars
    \/ executeWithSSH(host, command) /\ UNCHANGED routingVars

SpecDecider == Init /\ [][NextDecider]_vars

\* One evaluation of shouldUseAnsible (rule cascade) on the input.
Classify ==
  /\ dEvals < MaxEvals
  /\ dDecision' = shouldUseAnsible(dInput.description, dInput.command)
  /\ dVersion' = "cascade"
  /\ dEvals' = dEvals + 1
  /\ UNCHANGED <<execVars, docVars, dExec, dResult, dInput, dPrev, dInvoked, dResponse>>

\* One evaluation of shouldUseAnsible (keyword count) on the input.
ClassifyKeywordCount ==
  /\ dEvals < MaxEvals
  /\ dDecision' = shouldUseAnsible_KeywordCount(dInput.description, dInput.command)
  /\ dVersion' = "count"
  /\ dEvals' = dEvals + 1
  /\ UNCHANGED <<execVars, docVars, dExec, dResult, dInput, dPrev, dInvoked, dResponse>>

NextClassify == Classify \/ ClassifyKeywordCount

\* One evaluation of the test script's copy of shouldUseAnsible on the input.
ClassifyTestCopy ==
  /\ dEvals < MaxEvals
  /\ dDecision' = shouldUseAnsible_TestCopy(dInput.description, dInput.command)
  /\ dVersion' = "test"
  /\ dEvals' = dEvals + 1
  /\ UNCHANGED <<execVars, docVars, dExec, dResult, dInput, dPrev, dInvoked, dResponse>>

\* One evaluation of shouldUseAnsible on the same command under another
\* description.
ClassifyDescribed(description) ==
  /\ dEvals < MaxEvals
  /\ dInput' = [dInput EXCEPT !.description = description]
  /\ dDecision' = shouldUseAnsible(description, dInput.command)
  /\ dVersion' = "cascade"
  /\ dEvals' = dEvals + 1
  /\ UNCHANGED <<execVars, docVars, dExec, dResult, dPrev, dInvoked, dResponse>>

\* One command, classified by the server and by the test script.
InitCompare ==
  /\ InitExec
  /\ InitDocs(NoPath)
  /\ \E input \in CompareInputs : InitDecider(input)

NextCompare ==
  \/ Classify
  \/ ClassifyTestCopy
  \/ \E description \in CompareDescriptions : ClassifyDescribed(description)

SpecCompare == InitCompare /\ [][NextCompare]_vars

SpecClassify == InitClassify /\ [][NextClassify]_vars

\* Variant of the catch block that falls back to the other backend.
OnBackendFailure_Fallback(backend) ==
  << IF backend = "ansible" THEN "ssh" ELSE "ansible" >>

\* What the catch block of the execute_command handler invokes: nothing, it
\* only builds the error response.
OnBackendFailure(backend) == <<>>

\* The execute_command handler of the rule-cascade decider: classify, run the
\* chosen backend, return its output or an isError response.
execute_command(host, description, command) ==
  LET d == shouldUseAnsible(description, command)
      backend == IF d.useAnsible THEN "ansible" ELSE "ssh"
  IN /\ dInput' = [description |-> description, command |-> command]
     /\ dVersion' = "cascade"
     /\ dDecision' = d
     /\ dEvals' = 1
     /\ dPrev' = dDecision
     /\ IF d.useAnsible
        THEN executeWithAnsible(host, command)
        ELSE executeWithSSH(host, command)
     /\ dInvoked' = <<backend>> \o
                      (IF dResult' = "threw" THEN OnBackendFailure(backend) ELSE <<>>)
     /\ dResponse' = IF dResult' = "threw" THEN "isError" ELSE "content"

NextHandler ==
  \E host \in DeciderHosts, description \in DeciderDescriptions,
     command \in DeciderCommands :
    execute_command(host, description, command)

SpecHandler == Init /\ [][NextHandler]_vars


\* The documents server about to validate one requested path.
InitPath ==
  /\ InitExec
  /\ InitDecider(NoInput)
  /\ \E path \in RequestedPaths : InitDocs(path)

\* A tool of the documents server validates the path it was given.
ValidatePath ==
  /\ validated = NotValidated
  /\ validated' = validateDocumentsPath(requestedPath)
  /\ UNCHANGED <<execVars, deciderVars, requestedPath>>

NextPath == ValidatePath

SpecPath == InitPath /\ [][NextPath]_vars

\* The Ansible server in an environment whose random ids may repeat.
InitIds ==
  /\ \E e \in AnyIdEnvs : InitExecIn(e)
  /\ InitDecider(NoInput)
  /\ InitDocs(NoPath)

\* Concurrent runCommand calls (output content left out: it does not
\* influence admission, timers or the kind of outcome).
Next == \E c \in Calls : CallStep(c)

Spec == Init /\ [][Next]_vars

\* Concurrent runCommand calls whose commandIds are whatever Math.random
\* returns.
SpecIds == InitIds /\ [][Next]_vars

\* The event loop runs every due timer and every continuation of a settled
\* promise, reports a failed spawn, and reports 'close' once a process has
\* ended; whether and when a running child ends is up to the child.
Fairness ==
  \A c \in Calls :
    /\ WF_vars(SpawnTimerFire(c))
    /\ WF_vars(ExplicitTimerFire(c))
    /\ WF_vars(Resume(c))
    /\ WF_vars(ChildError(c))
    /\ WF_vars(ChildClose(c))

SpecFair == Spec /\ Fairness

\* Output capture: the first call with its output events.
NextIO == CallStep(1) \/ DataStep(1)

SpecIO == Init /\ [][NextIO]_vars

\* Tool requests: run_ansible_command, and runCommand as the other tools call
\* it, under the CallToolRequest handler.
ToolStep(c) ==
  \/ \E a \in ToolRequests :
       /\ runAnsibleCommand(c, a)
       /\ tool' = [tool EXCEPT ![c] = "run_ansible_command"]
  \/ \E a \in ConvenienceRequests :
       /\ tool' = [tool EXCEPT ![c] = a.tool]
       /\ \/ a.tool = "configure_openwrt_device" /\ configureOpenWrtDevice(c, a)
          \/ a.tool = "check_device_status" /\ checkDeviceStatus(c, a)
          \/ a.tool = "backup_device_config" /\ backupDeviceConfig(c, a)
          \/ a.tool = "deploy_adblock" /\ deployAdblock(c, a)
  \/ \E name \in LilygoTools :
       /\ tool' = [tool EXCEPT ![c] = name]
       /\ \/ name = "list_lilygo_devices" /\ listLilygoDevices(c)
          \/ name = "flash_lilygo_firmware" /\ flashLilygoFirmware(c)
          \/ name = "monitor_lilygo_serial" /\ monitorLilygoSerial(c)
          \/ name = "send_lilygo_command" /\ sendLilygoCommand(c)
  \/ CallStep(c)

\* The tool requests considered: the first two calls.
ToolCalls == {c \in Calls : c <= NumCalls /\ c < 3}

NextTool == \E c \in ToolCalls : ToolStep(c)

SpecTool == Init /\ [][NextTool]_vars

\* ------------------------------------------------------------------ claims

Running == {c \in Calls : child[c] = "running"}

\* C1: in every reachable state, under any interleaving of runCommand calls
\* and their close / error / timer events, activeCommands holds at most
\* MAX_CONCURRENT_COMMANDS ids (check and insertion are one step of RunCommand,
\* so two calls are never both admitted into the last free slot).
C1_ActiveWithinLimit == Cardinality(activeCommands) <= MAX_CONCURRENT_COMMANDS

\* Two calls met at the last free slot: one holds it with its child running,
\* the other was refused.
C1_Witness ==
  /\ Cardinality(activeCommands) = MAX_CONCURRENT_COMMANDS
  /\ \E c, d \in Calls :
       /\ pc[c] = "awaiting" /\ child[c] = "running"
       /\ outcome[d].kind = "RateLimited"

C3_ReleasedOnEveryExit ==
  /\ \A c \in Calls : pc[c] = "done" => commandId(c) \notin activeCommands
  /\ (\A c \in Calls : pc[c] # "awaiting") => activeCommands = {}

\* MAX_CONCURRENT_COMMANDS calls ran past the timeout and ended, and a later
\* call was admitted and has its child running.
C3_Witness ==
  /\ Cardinality({c \in Calls : pc[c] = "done" /\ killed[c]}) = MAX_CONCURRENT_COMMANDS
  /\ \E d \in Calls :
       /\ pc[d] = "awaiting" /\ child[d] = "running"
       /\ commandId(d) \in activeCommands

\* C4: a call whose child was still alive when its timeout fired (child.killed
\* is set by the kill that a timer delivered) never ends with an execution
\* result.
C4_TimeoutNeverResult ==
  \A c \in Calls : killed[c] => outcome[c].kind # "result"

\* C5: every admitted call eventually settles, whatever its child does.
C5_EventuallySettles ==
  \A c \in Calls : (pc[c] = "awaiting") ~> (pc[c] = "done")

\* C6: a call made while activeCommands holds MAX_CONCURRENT_COMMANDS ids ends
\* in that very step with the rate-limit error, spawns nothing, arms no timer
\* and leaves activeCommands unchanged.
C6_RejectsAtCapacity ==
  [][\A c \in Calls :
       (/\ pc[c] = "idle"
        /\ pc'[c] # "idle"
        /\ Cardinality(activeCommands) >= MAX_CONCURRENT_COMMANDS)
       => /\ pc'[c] = "done"
          /\ outcome'[c].kind = "RateLimited"
          /\ activeCommands' = activeCommands
          /\ child' = child
          /\ spawnTimer' = spawnTimer
          /\ explTimer' = explTimer]_vars

\* A call was refused at full capacity for a program that is allowed.
C6_Witness ==
  \E c \in Calls :
    /\ pc[c] = "done"
    /\ outcome[c].kind = "RateLimited"
    /\ req[c].command = "ansible-playbook"
    /\ child[c] = "none"
    /\ commandId(c) \notin activeCommands

\* C7 as stated: a call for a program outside {ansible, ansible-playbook}
\* spawns no child and fails with the not-allowed error.
C7_AlwaysNotAllowed ==
  \A c \in Calls :
    (pc[c] # "idle" /\ req[c].command \notin {"ansible", "ansible-playbook"})
    => (child[c] = "none" /\ outcome[c].kind = "NotAllowed")

\* C7 amended: a call for a program outside {ansible, ansible-playbook} never
\* has a child; it fails with the rate-limit error when activeCommands is full
\* at the call, with the not-allowed error otherwise, and keeps that outcome.
C7_NeverSpawnsDisallowed ==
  [][\A c \in Calls :
       (pc'[c] # "idle" /\ req'[c].command \notin {"ansible", "ansible-playbook"})
       => /\ child'[c] = "none"
          /\ IF pc[c] = "idle"
             THEN outcome'[c].kind =
                    IF Cardinality(activeCommands) >= MAX_CONCURRENT_COMMANDS
                    THEN "RateLimited" ELSE "NotAllowed"
             ELSE outcome'[c] = outcome[c]]_vars

\* A call for sh has ended with the not-allowed error and without a child.
C7_Witness ==
  \E c \in Calls :
    /\ pc[c] = "done"
    /\ req[c].command = "sh"
    /\ outcome[c].kind = "NotAllowed"
    /\ child[c] = "none"

\* C8: no process is started through a shell command string; the caller's
\* text reaches the program as arguments no shell has acted on.
C8_NoShellString == dExec.api # "execSync" /\ ~dExec.interpreted

IsTrimOf(t, s) ==
  /\ t = <<>> \/ (~IsSpace(t[1]) /\ ~IsSpace(t[Len(t)]))
  /\ \E i \in 0..Len(s) :
       /\ i + Len(t) <= Len(s)
       /\ SubSeq(s, i + 1, i + Len(t)) = t
       /\ \A k \in 1..Len(s) : (k <= i \/ k > i + Len(t)) => IsSpace(s[k])

\* C10: every result has success = (code = 0), also when the child was ended
\* by a signal and has no code, and its stdout and stderr are the captured
\* output without the surrounding whitespace.
C10_ResultShape ==
  \A c \in Calls :
    outcome[c].kind = "result"
    => /\ outcome[c].success = (outcome[c].code = 0)
       /\ outcome[c].code = exitCode[c]
       /\ IsTrimOf(outcome[c].stdout, stdout[c])
       /\ IsTrimOf(outcome[c].stderr, stderr[c])

\* A child ended by the signal, with no exit code, whose output had
\* whitespace on both sides.
C10_Witness ==
  \E c \in Calls :
    /\ outcome[c].kind = "result"
    /\ outcome[c].code = Null
    /\ killed[c]
    /\ stdout[c] = <<" ", "x", " ">>
    /\ outcome[c].stdout = <<"x">>
    /\ stderr[c] = <<" ", " ">>

\* The failure kinds of the error taxonomy a tool caller can meet.
FailureKinds == {"InvalidParams", "NotAllowed", "RateLimited", "Timeout", "SpawnFailed"}

\* C11: two tool calls that failed with different failure kinds (invalid
\* input, not allowed, rate limited, timeout, spawn failed) come out of the
\* CallToolRequest handler with different error codes.
C11_DistinctErrorCodes ==
  \A c, d \in Calls :
    (/\ pc[c] = "done" /\ pc[d] = "done"
     /\ outcome[c].kind \in FailureKinds
     /\ outcome[d].kind \in FailureKinds
     /\ outcome[c].kind # outcome[d].kind)
    => CallToolResult(outcome[c]).code # CallToolResult(outcome[d]).code

\* The command holds an output redirection.
HasRedirect(cmd) == \E i \in 1..Len(cmd) : cmd[i] = ">"

\* The command pipes into tee: a bar, any number of blanks, then tee.
PipesToTee(cmd) ==
  \E i \in 1..Len(cmd) : \E j \in (i + 1)..Len(cmd) :
    /\ cmd[i] = "|"
    /\ \A k \in (i + 1)..(j - 1) : cmd[k] = " "
    /\ j + 2 <= Len(cmd)
    /\ ToLowerCase(SubSeq(cmd, j, j + 2)) = <<"t", "e", "e">>

\* C12: a command with an output redirection or a pipe to tee is classified
\* Ansible by the rule cascade, whatever else description and command hold.
C12_FileWriteIsAnsible ==
  (/\ dVersion = "cascade"
   /\ HasRedirect(dInput.command) \/ PipesToTee(dInput.command))
  => dDecision.useAnsible

\* The command holds one of the privilege indicators.
HasPrivilegeIndicator(cmd) == IncludesAny(ToLowerCase(cmd), SUDO_INDICATORS)

\* C13 as stated: a command with a privilege indicator is classified Ansible,
\* and it is rule 2 that decides.
C13_DecidedByRule2 ==
  (dVersion = "cascade" /\ HasPrivilegeIndicator(dInput.command))
  => (dDecision.useAnsible /\ dDecision.rule = 2)

\* C13 amended: a command with a privilege indicator is classified Ansible;
\* rule 1 decides when the command also holds a redirection or the text
\* bar-blank-tee, rule 2 otherwise, so never rule 5 or a later one.
C13_PrivilegedIsAnsible ==
  (dVersion = "cascade" /\ HasPrivilegeIndicator(dInput.command))
  => /\ dDecision.useAnsible
     /\ dDecision.rule =
          IF \/ HasRedirect(dInput.command)
             \/ Includes(ToLowerCase(dInput.command), <<"|", " ", "t", "e", "e">>)
          THEN 1 ELSE 2

\* sudo together with a configuration-change keyword, decided by rule 2.
C13_Witness ==
  /\ dVersion = "cascade"
  /\ dDecision.rule = 2
  /\ dDecision.useAnsible
  /\ Includes(ToLowerCase(dInput.command), <<"s", "u", "d", "o">>)
  /\ Includes(ToLowerCase(dInput.command), <<"r", "e", "s", "t", "a", "r", "t">>)

\* C14: a command that holds an operation of the idempotent-operation list is
\* classified Ansible, whatever the description says.
C14_IdempotentIsAnsible ==
  (/\ dVersion = "cascade"
   /\ IncludesAny(ToLowerCase(dInput.command), IDEMPOTENT_OPERATIONS))
  => dDecision.useAnsible

\* chmod under a description that holds a status keyword only, decided by
\* rule 4.
C14_Witness ==
  /\ dVersion = "cascade"
  /\ dDecision.rule = 4
  /\ dDecision.useAnsible
  /\ dInput.description = <<"C", "h", "e", "c", "k">>
  /\ Includes(dInput.command, <<"c", "h", "m", "o", "d">>)

\* C15: whenever the combined text holds a configuration-change keyword and a
\* status-query keyword, the decider (either of its two programs, each with
\* its own keyword lists) classifies Ansible.
C15_ConfigBeatsStatus ==
  LET text == TextOf(dInput.description, dInput.command)
  IN /\ (/\ dVersion = "cascade"
         /\ IncludesAny(text, CONFIG_CHANGE_KEYWORDS)
         /\ IncludesAny(text, STATUS_QUERY_KEYWORDS))
        => dDecision.useAnsible
     /\ (/\ dVersion = "count"
         /\ IncludesAny(text, ANSIBLE_KEYWORDS)
         /\ IncludesAny(text, SSH_KEYWORDS))
        => dDecision.useAnsible

\* C16: a pair that matches none of rules 1 to 5 is classified SSH, by rule 6
\* when the text holds a status keyword and by the default rule 7 otherwise.
C16_NoRuleMeansSSH ==
  LET text == TextOf(dInput.description, dInput.command)
      cmd == ToLowerCase(dInput.command)
  IN (/\ dVersion = "cascade"
      /\ ~Rule1(cmd) /\ ~Rule2(cmd) /\ ~Rule3(cmd) /\ ~Rule4(cmd) /\ ~Rule5(text))
     => /\ ~dDecision.useAnsible
        /\ dDecision.rule = IF IncludesAny(text, STATUS_QUERY_KEYWORDS) THEN 6 ELSE 7

\* A non-empty command without any keyword, classified SSH by default.
C16_Witness ==
  /\ dVersion = "cascade"
  /\ dDecision.rule = 7
  /\ ~dDecision.useAnsible
  /\ dInput.command = <<"z", "z">>
  /\ dInput.description = <<"z", "z">>

C18_ReturnIdentifiesRule ==
  (dPrev # NoDecision /\ dPrev.useAnsible = dDecision.useAnsible)
  => dPrev.rule = dDecision.rule

\* C19: a handled execute_command request has invoked one backend once, the
\* one shouldUseAnsible selects, and its response is an error response exactly
\* when that backend failed.
C19_OneBackendOnce ==
  dResponse # "none"
  => /\ Len(dInvoked) = 1
     /\ dInvoked[1] = IF shouldUseAnsible(dInput.description, dInput.command).useAnsible
                      THEN "ansible" ELSE "ssh"
     /\ dExec.backend = dInvoked[1]
     /\ (dResult = "threw") <=> (dResponse = "isError")

\* The Ansible backend failed and the request ended with an error response.
C19_Witness ==
  /\ dResult = "threw"
  /\ dResponse = "isError"
  /\ dInvoked = <<"ansible">>
  /\ dExec.backend = "ansible"

\* The host does not match the identifier pattern, or args is not a non-empty
\* string.
InvalidRequest(a) ==
  /\ a # NoToolArgs
  /\ \/ a.hosts.type # "string"
     \/ a.hosts.chars = <<>>
     \/ \E i \in 1..Len(a.hosts.chars) : a.hosts.chars[i] \notin HostPatternChars
     \/ a.args.type # "string"
     \/ a.args.chars = <<>>

\* C20: a run_ansible_command request with a bad host or with missing,
\* non-string or empty args ends with the invalid-input error without ever
\* entering runCommand: no slot taken, no child.
C20_InvalidRejectedEarly ==
  \A c \in Calls :
    (pc[c] # "idle" /\ tool[c] = "run_ansible_command"
     /\ InvalidRequest(toolArgs[c]))
    => /\ pc[c] = "done"
       /\ outcome[c].kind = "InvalidParams"
       /\ child[c] = "none"
       /\ req[c] = NoRequest

NamedSegments(path) ==
  SelectSeq(Split(path, <<>>, <<>>), LAMBDA seg : seg # <<>>)

\* A path lies lexically inside the Documents folder: it is absolute, its
\* first segments are those of the folder, and no segment is '..'.
InsideDocuments(path) ==
  LET segs == NamedSegments(path)
      docs == NamedSegments(documentsPath)
  IN /\ path # <<>> /\ path[1] = "/"
     /\ Len(segs) >= Len(docs)
     /\ SubSeq(segs, 1, Len(docs)) = docs
     /\ \A i \in 1..Len(segs) : segs[i] # <<".", ".">>

Targets(args, t) ==
  \E i \in 1..(Len(args) - 1) :
    \/ args[i] = Str(t) /\ args[i + 1] = Str(<<"-m">>)
    \/ args[i] = Str(<<"-l">>) /\ args[i + 1] = Str(t)

\* C22: a convenience tool called without its optional target passes
\* validation (it ends in no InvalidParams error and enters runCommand, a
\* missing playbook file aside) and its command is aimed at the documented
\* default: 'all' for check_device_status, 'openwrt' for
\* configure_openwrt_device and deploy_adblock.
C22_DefaultsApplied ==
  \A c \in Calls :
    (/\ tool[c] \in {"check_device_status", "configure_openwrt_device",
                     "deploy_adblock"}
     /\ pc[c] # "idle"
     /\ ~Truthy(toolArgs[c].hosts)
     /\ outcome[c].kind # "NotFound") =>
      /\ outcome[c].kind # "InvalidParams"
      /\ req[c] # NoRequest
      /\ Targets(req[c].args,
                 IF tool[c] = "check_device_status"
                 THEN <<"a", "l", "l">> ELSE <<"o", "p", "e", "n", "w", "r", "t">>)

CommandTriggers(command) ==
  LET cmd == ToLowerCase(command)
  IN Rule1(cmd) \/ Rule2(cmd) \/ Rule3(cmd) \/ Rule4(cmd)

\* C24: when the command alone triggers one of rules 1 to 4, evaluating
\* shouldUseAnsible on it again under any other description gives the same
\* decision by the same rule; and an evaluation ends by one of rules 1 to 4
\* only if the command alone triggers it, whatever the description holds.
C24_DescriptionIndependent ==
  [][ /\ (/\ dVersion = "cascade" /\ dVersion' = "cascade"
          /\ dInput'.command = dInput.command
          /\ CommandTriggers(dInput.command)) => dDecision' = dDecision
      /\ (dVersion' = "cascade" /\ dDecision'.rule \in 1..4)
           => CommandTriggers(dInput'.command) ]_vars

\* A firewall command was classified a second time, now under a description
\* that holds a redirection, and is still decided by rule 3.
C24_Witness ==
  /\ dVersion = "cascade"
  /\ dEvals = 2
  /\ dInput.command = <<"u", "f", "w">>
  /\ dInput.description = <<"a", " ", ">", " ", "f">>
  /\ dDecision = [useAnsible |-> TRUE, rule |-> 3]

\* C25: the test script's copy of shouldUseAnsible decides every
\* (description, command) pair as the server's shouldUseAnsible does.
C25_TestCopyAgrees ==
  dVersion = "test" =>
    dDecision.useAnsible
      = shouldUseAnsible(dInput.description, dInput.command).useAnsible

\* Calls that passed the capacity check and have not returned yet.
InFlight == {c \in Calls : pc[c] = "awaiting"}

\* C26: activeCommands holds exactly one entry per call that passed the
\* capacity check and has not returned: its size is the number of such calls,
\* each finds its own commandId in it, and no two of them have the same
\* commandId.
C26_OneEntryPerCall ==
  /\ Cardinality(activeCommands) = Cardinality(InFlight)
  /\ \A c \in InFlight : commandId(c) \in activeCommands
  /\ \A c, d \in InFlight : c # d => commandId(c) # commandId(d)

\* C27: the outcome of a call, once settled, never changes; an event of the
\* call's child or timers after that leaves activeCommands alone; the call's
\* id enters activeCommands only when the call is made and leaves it only in
\* the one step in which the settled call returns.
C27_OneOutcome ==
  [][ \A c \in Calls :
        /\ outcome[c].kind # "pending" => outcome'[c] = outcome[c]
        /\ (/\ outcome[c].kind # "pending"
            /\ \/ child'[c] # child[c]
               \/ spawnTimer'[c] # spawnTimer[c]
               \/ explTimer'[c] # explTimer[c]) => activeCommands' = activeCommands
        /\ (commandId(c) \notin activeCommands /\ commandId(c) \in activeCommands')
             => pc[c] = "idle"
        /\ (commandId(c) \in activeCommands /\ commandId(c) \notin activeCommands')
             => /\ pc[c] = "awaiting" /\ pc'[c] = "done"
                /\ outcome[c].kind # "pending"
        /\ pc[c] = "done" => pc'[c] = "done" ]_vars

\* A call was rejected by the timeout handler and has returned; its child was
\* closed afterwards, and the outcome is still the timeout.
C27_Witness ==
  \E c \in Calls :
    /\ pc[c] = "done"
    /\ outcome[c].kind = "Timeout"
    /\ child[c] = "closed"
    /\ commandId(c) \notin activeCommands

\* C28: once a call has returned a result and its child was never signalled,
\* the timer of the spawn option is cancelled, and whatever happens next (the
\* explicit timer firing included) sends no signal and changes neither the
\* call's outcome, its child, nor its entry in activeCommands.
C28_NothingAfterOwnExit ==
  [][ \A c \in Calls :
        (pc[c] = "done" /\ outcome[c].kind = "result" /\ ~killed[c]) =>
          /\ spawnTimer[c] = "cleared"
          /\ ~killed'[c]
          /\ outcome'[c] = outcome[c]
          /\ child'[c] = child[c]
          /\ commandId(c) \notin activeCommands' ]_vars

\* A child ended by itself, its call returned the result, and the explicit
\* timer has fired since.
C28_Witness ==
  \E c \in Calls :
    /\ pc[c] = "done"
    /\ outcome[c].kind = "result"
    /\ outcome[c].success
    /\ ~killed[c]
    /\ child[c] = "closed"
    /\ explTimer[c] = "fired"

\* The call's program is off the allow-list or its arguments are not strings.
FailsChecks(r) == r.command \notin allowedCommands \/ ~r.argsOk

\* C29: a call that fails the allow-list or the argument check never has a
\* child or a timer; made below capacity it adds its id, is settled as
\* NotAllowed / InvalidArgument, and its return removes exactly that id; made
\* at capacity it is RateLimited and activeCommands is left as it was.
C29_FailedCheckFrame ==
  [][ \A c \in Calls :
        /\ (pc[c] = "idle" /\ pc'[c] # "idle" /\ FailsChecks(req'[c])) =>
             IF Cardinality(activeCommands) >= env.MAX_CONCURRENT_COMMANDS
             THEN /\ pc'[c] = "done"
                  /\ outcome'[c].kind = "RateLimited"
                  /\ activeCommands' = activeCommands
             ELSE /\ pc'[c] = "awaiting"
                  /\ outcome'[c].kind =
                       IF req'[c].command \notin allowedCommands
                       THEN "NotAllowed" ELSE "InvalidArgument"
                  /\ activeCommands' = activeCommands \cup {commandId(c)}
        /\ (pc[c] = "awaiting" /\ pc'[c] = "done" /\ FailsChecks(req[c])) =>
             activeCommands' = activeCommands \ {commandId(c)}
        /\ (pc'[c] # "idle" /\ FailsChecks(req'[c])) =>
             /\ child'[c] = "none"
             /\ spawnTimer'[c] = "off"
             /\ explTimer'[c] = "off" ]_vars

\* A call with a non-string argument was made below capacity and has returned
\* its error, leaving activeCommands empty; a call for sh made meanwhile was
\* turned away at capacity.
C29_Witness ==
  \E c, d \in Calls :
    /\ ~req[c].argsOk
    /\ pc[c] = "done"
    /\ outcome[c].kind = "InvalidArgument"
    /\ req[d].command = "sh"
    /\ outcome[d].kind = "RateLimited"
    /\ activeCommands = {}

====
